---- MODULE Spec2Model ----
(***************************************************************************)
(* A model of the CHIP-8 interpreter of src/src/main.rs: the machine       *)
(* (Chip8State and its update function, one fetch-decode-execute step per  *)
(* call) and the host loop of main that drives it.                         *)
(*                                                                         *)
(* Times are Durations in nanoseconds; as_micros truncates them.  A panic  *)
(* of the program is recorded in the variable panicked (the message of the *)
(* panic); the fields keep the values they had when the panic was raised   *)
(* and no further step runs.                                               *)
(*                                                                         *)
(* The two large arrays are held by their non-default entries: ram (4096   *)
(* bytes) as the function of its non-zero bytes, read with RamGet and      *)
(* written with RamSet; display.pixels (64 x 32 booleans) as the set of    *)
(* the indices of the pixels that are true.  Every index is checked        *)
(* against the array's length where the code indexes the array.            *)
(***************************************************************************)
EXTENDS Integers, Sequences, FiniteSets, TLC

\* ------------------------------------------------------------ constants

DISPLAY_WIDTH == 64
DISPLAY_HEIGHT == 32
FRAMETIME_US == 16800
TIMER_DECREMENT_INTERVAL_US == 16667
CHIP8_UPDATE_TIME_US == 1429
STACK_CAPACITY == 64
\* ram: [u8; 4096]
RAM_SIZE == 4096
\* the rom is loaded at 0x200, the font at 0x50
ROM_BASE == 512
FONT_BASE == 80
\* keypad arrays: [bool; 16], registers: [u8; 16]
NUM_KEYS == 16
NUM_REGS == 16

\* ------------------------------------------------------------ bounds

\* the sum of the elapsed times passed to update, in microseconds
MaxTotalUs == 34000
\* the number of times the wall clock of the host advances
MaxTicks == 3

\* ------------------------------------------------------------ integers

Pow2(k) == 2 ^ k

\* bit k of a byte
Bit(a, k) == (a \div Pow2(k)) % 2

\* u8 | u8, u8 & u8, u8 ^ u8
BitOr(a, b) == LET f(k) == (IF Bit(a, k) + Bit(b, k) > 0 THEN Pow2(k) ELSE 0)
               IN f(0) + f(1) + f(2) + f(3) + f(4) + f(5) + f(6) + f(7)

BitAnd(a, b) == LET f(k) == (IF Bit(a, k) + Bit(b, k) = 2 THEN Pow2(k) ELSE 0)
                IN f(0) + f(1) + f(2) + f(3) + f(4) + f(5) + f(6) + f(7)

BitXor(a, b) == LET f(k) == (IF Bit(a, k) + Bit(b, k) = 1 THEN Pow2(k) ELSE 0)
                IN f(0) + f(1) + f(2) + f(3) + f(4) + f(5) + f(6) + f(7)

\* Duration::as_micros: whole microseconds of a Duration held in nanoseconds
AsMicros(d) == d \div 1000

\* u16::from_be_bytes
FromBeBytes(hi, lo) == hi * 256 + lo

\* the two bytes of an instruction word, big endian
WordBytes(w) == <<w \div 256, w % 256>>

\* ------------------------------------------------------------ the font

\* font::FONT (font.rs): 16 glyphs of five bytes, the hex digits 0..F
FONT ==
    << 240, 144, 144, 144, 240,   32,  96,  32,  32, 112,
       240,  16, 240, 128, 240,  240,  16, 240,  16, 240,
       144, 144, 240,  16,  16,  240, 128, 240,  16, 240,
       240, 128, 240, 144, 240,  240,  16,  32,  64,  64,
       240, 144, 240, 144, 240,  240, 144, 240,  16, 240,
       240, 144, 240, 144, 144,  224, 144, 224, 144, 224,
       240, 128, 128, 128, 240,  224, 144, 144, 144, 224,
       240, 128, 240, 128, 240,  240, 128, 240, 128, 128 >>

\* ------------------------------------------------------------ the machine

\* the fields of Chip8State; panicked is the message of the panic that ended the
\* program, "" while it runs
VARIABLES ram, pc, i, v, delay_timer, sound_timer, stack, display, cosmac_quirks, elapsed_us, panicked
\* the arguments of the latest call of update, and the instruction it fetched
\* (-1 when the fetch panicked, -2 before the first call)
VARIABLES delta, keypad, blank_interrupt, fetched
\* history: the microseconds passed to update so far; for each timer the value
\* the program last wrote and the number of timer intervals elapsed at that write;
\* whether the latest call, and the call before it, blocked (left pc on a Dxyn or
\* Fx0A it fetched); the addresses of the calls (2nnn) not yet returned from,
\* the latest last
VARIABLES total_us, timer_set, retry, calls
\* main: the position in the 'running loop, the wall clock, and the locals
VARIABLES host_pc, now, prev_update, lag_us, prev_render, cycle_idx, num_cycles, just_rendered, beeping
\* history: the iterations of the catch-up loop performed so far, and the number
\* of advances of the wall clock; whether a frame was rendered since the latest
\* call of update, and the number of Dxyn executed since the latest render
VARIABLES catchups, ticks, render_pending, draws

machineVars == <<ram, pc, i, v, delay_timer, sound_timer, stack, display, cosmac_quirks, elapsed_us, panicked>>
callVars == <<delta, keypad, blank_interrupt, fetched>>
historyVars == <<total_us, timer_set, retry, calls>>
hostVars == <<host_pc, now, prev_update, lag_us, prev_render, cycle_idx, num_cycles, just_rendered, beeping, catchups, ticks,
              render_pending, draws>>
vars == <<machineVars, callVars, historyVars, hostVars>>

\* ram[a] of a ram held by its non-zero bytes, for a < RAM_SIZE
RamGet(r, a) == IF a \in DOMAIN r THEN r[a] ELSE 0

\* the ram r after ram[a] = value, for a < RAM_SIZE
RamSet(r, a, value) ==
    IF value = 0
    THEN [b \in DOMAIN r \ {a} |-> r[b]]
    ELSE [b \in DOMAIN r \cup {a} |-> IF b = a THEN value ELSE r[b]]

\* pixels[px] of a display held by its lit pixels, and the display after the
\* pixel is inverted
PixelGet(pixels, px) == px \in pixels

PixelToggle(pixels, px) == IF px \in pixels THEN pixels \ {px} ELSE pixels \cup {px}

\* Chip8State as one value
Cur ==
    [ ram |-> ram, pc |-> pc, i |-> i, v |-> v, delay_timer |-> delay_timer,
      sound_timer |-> sound_timer, stack |-> stack, display |-> display,
      cosmac_quirks |-> cosmac_quirks, elapsed_us |-> elapsed_us,
      panicked |-> panicked ]

\* Chip8Stack::new
Chip8Stack_new == [buffer |-> [k \in 0..(STACK_CAPACITY - 1) |-> 0], top |-> 0]

\* Chip8State::new(rom, cosmac): rom is a sequence of bytes
Chip8State_new(rom, cosmac) ==
    [ ram |-> LET byte(a) ==
                      IF a >= ROM_BASE /\ a < ROM_BASE + Len(rom) THEN rom[a - ROM_BASE + 1]
                      ELSE IF a >= FONT_BASE /\ a < FONT_BASE + Len(FONT) THEN FONT[a - FONT_BASE + 1]
                      ELSE 0
                    loaded == (FONT_BASE..(FONT_BASE + Len(FONT) - 1))
                                \cup (ROM_BASE..(ROM_BASE + Len(rom) - 1))
                IN [a \in {b \in loaded : byte(b) # 0} |-> byte(a)],
      pc |-> ROM_BASE,
      i |-> 0,
      v |-> [k \in 0..(NUM_REGS - 1) |-> 0],
      delay_timer |-> 0,
      sound_timer |-> 0,
      stack |-> Chip8Stack_new,
      display |-> {},
      cosmac_quirks |-> cosmac,
      elapsed_us |-> 0,
      panicked |-> "" ]

\* a panic: the message is kept, the fields stay as they are
Panic(m, msg) == [m EXCEPT !.panicked = msg]

\* ---- Chip8Stack

\* push with the capacity test one entry early
Chip8Stack_pushOffByOne(m, value) ==
    IF m.stack.top = STACK_CAPACITY - 1
    THEN Panic(m, "stack push: explicit panic")
    ELSE [m EXCEPT !.stack = [buffer |-> [@.buffer EXCEPT ![m.stack.top] = value],
                              top |-> @.top + 1]]

Chip8Stack_push(m, value) ==
    IF m.stack.top = STACK_CAPACITY
    THEN Panic(m, "stack push: explicit panic")
    ELSE [m EXCEPT !.stack = [buffer |-> [@.buffer EXCEPT ![m.stack.top] = value],
                              top |-> @.top + 1]]

\* pop: the machine after the pop; the value popped is PopValue
Chip8Stack_pop(m) ==
    IF m.stack.top = 0
    THEN Panic(m, "stack pop: explicit panic")
    ELSE [m EXCEPT !.stack.top = @ - 1]

PopValue(m) == m.stack.buffer[m.stack.top - 1]

\* ---- timers

\* the decrement with the accumulator reset to zero instead of reduced by the
\* interval
DecrementTimersReset(m) ==
    IF m.elapsed_us >= TIMER_DECREMENT_INTERVAL_US
    THEN [m EXCEPT
            !.delay_timer = IF @ > 0 THEN @ - 1 ELSE @,
            !.sound_timer = IF @ > 0 THEN @ - 1 ELSE @,
            !.elapsed_us = 0]
    ELSE m

RECURSIVE DecrementTimers(_)
DecrementTimers(m) ==
    IF m.elapsed_us >= TIMER_DECREMENT_INTERVAL_US
    THEN DecrementTimers([m EXCEPT
            !.delay_timer = IF @ > 0 THEN @ - 1 ELSE @,
            !.sound_timer = IF @ > 0 THEN @ - 1 ELSE @,
            !.elapsed_us = @ - TIMER_DECREMENT_INTERVAL_US])
    ELSE m

UpdateTimers(m, d) == DecrementTimers([m EXCEPT !.elapsed_us = @ + AsMicros(d)])

\* ---- fetch

\* the fetch that lets a chunk of one byte through
FetchPanicAtEnd(m) ==
    IF m.pc > RAM_SIZE THEN "fetch: range start index out of range"
    ELSE IF m.pc = RAM_SIZE THEN "fetch: Tried to fetch beyond end of ram"
    ELSE ""

\* self.ram[pc..] panics past the end, chunks(2).next() is None at the end,
\* try_into fails on a chunk of one byte
FetchPanic(m) ==
    IF m.pc > RAM_SIZE THEN "fetch: range start index out of range"
    ELSE IF m.pc = RAM_SIZE THEN "fetch: Tried to fetch beyond end of ram"
    ELSE IF m.pc = RAM_SIZE - 1 THEN "fetch: TryFromSliceError"
    ELSE ""

FetchInstr(m) == FromBeBytes(RamGet(m.ram, m.pc), RamGet(m.ram, m.pc + 1))

\* ---- decode

DecodeOp(instr) == instr \div 4096
DecodeX(instr) == (instr % 4096) \div 256
DecodeY(instr) == (instr % 256) \div 16
DecodeN(instr) == instr % 16
DecodeNN(instr) == instr % 256
DecodeNNN(instr) == instr % 4096

UnknownInstruction(m) == Panic(m, "Unknown instruction")

IndexOutOfBounds(m) == Panic(m, "index out of bounds")

\* ---- execute: one operator per instruction; m has pc already advanced by 2

\* the clear that leaves the pixels as they are
Op00E0KeepDisplay(m) == m

Op00E0(m) == [m EXCEPT !.display = {}]

Op00EE(m) ==
    LET r == Chip8Stack_pop(m)
    IN IF r.panicked # "" THEN r ELSE [r EXCEPT !.pc = PopValue(m)]

Op1nnn(m, nnn) == [m EXCEPT !.pc = nnn]

\* the call that pushes the address of the call itself
Op2nnnPushCall(m, nnn) ==
    LET r == Chip8Stack_push(m, m.pc - 2)
    IN IF r.panicked # "" THEN r ELSE [r EXCEPT !.pc = nnn]

Op2nnn(m, nnn) ==
    LET r == Chip8Stack_push(m, m.pc)
    IN IF r.panicked # "" THEN r ELSE [r EXCEPT !.pc = nnn]

Op3xnn(m, x, nn) == IF m.v[x] = nn THEN [m EXCEPT !.pc = @ + 2] ELSE m

Op4xnn(m, x, nn) == IF m.v[x] # nn THEN [m EXCEPT !.pc = @ + 2] ELSE m

Op5xy0(m, x, y) == IF m.v[x] = m.v[y] THEN [m EXCEPT !.pc = @ + 2] ELSE m

Op6xnn(m, x, nn) == [m EXCEPT !.v[x] = nn]

\* wrapping_add
Op7xnn(m, x, nn) == [m EXCEPT !.v[x] = (@ + nn) % 256]

Op8xy0(m, x, y) == [m EXCEPT !.v[x] = m.v[y]]

\* vf = 0 after the operation in both modes
QuirkResetVFAlways(m) == [m EXCEPT !.v[15] = 0]

\* the quirk of 8xy1, 8xy2, 8xy3: vf = 0 after the operation
QuirkResetVF(m) == IF m.cosmac_quirks THEN [m EXCEPT !.v[15] = 0] ELSE m

Op8xy1(m, x, y) == QuirkResetVF([m EXCEPT !.v[x] = BitOr(m.v[x], m.v[y])])

Op8xy2(m, x, y) == QuirkResetVF([m EXCEPT !.v[x] = BitAnd(m.v[x], m.v[y])])

Op8xy3(m, x, y) == QuirkResetVF([m EXCEPT !.v[x] = BitXor(m.v[x], m.v[y])])

\* the two assignments in the other order: v[0xf] = flag, then v[x] = value
SetVFThenVx(m, x, value, flag) ==
    LET m1 == [m EXCEPT !.v[15] = flag]
    IN [m1 EXCEPT !.v[x] = value]

\* v[x] = value, then v[0xf] = flag
SetVxThenVF(m, x, value, flag) ==
    LET m1 == [m EXCEPT !.v[x] = value]
    IN [m1 EXCEPT !.v[15] = flag]

\* overflowing_add
Op8xy4(m, x, y) ==
    LET sum == m.v[x] + m.v[y]
    IN SetVxThenVF(m, x, sum % 256, IF sum > 255 THEN 1 ELSE 0)

\* overflowing_sub of vx - vy
Op8xy5(m, x, y) ==
    LET a == m.v[x]
        b == m.v[y]
    IN SetVxThenVF(m, x, (a - b + 256) % 256, IF a < b THEN 0 ELSE 1)

\* vx = vy before the shift in both modes
QuirkCopyVyAlways(m, x, y) == [m EXCEPT !.v[x] = m.v[y]]

\* the quirk of the shifts: vx = vy first
QuirkCopyVy(m, x, y) == IF m.cosmac_quirks THEN [m EXCEPT !.v[x] = m.v[y]] ELSE m

Op8xy6(m, x, y) ==
    LET m1 == QuirkCopyVy(m, x, y)
    IN SetVxThenVF(m1, x, m1.v[x] \div 2, m1.v[x] % 2)

\* overflowing_sub of vy - vx
Op8xy7(m, x, y) ==
    LET a == m.v[y]
        b == m.v[x]
    IN SetVxThenVF(m, x, (a - b + 256) % 256, IF a < b THEN 0 ELSE 1)

Op8xyE(m, x, y) ==
    LET m1 == QuirkCopyVy(m, x, y)
    IN SetVxThenVF(m1, x, (m1.v[x] * 2) % 256, m1.v[x] \div 128)

Op9xy0(m, x, y) == IF m.v[x] # m.v[y] THEN [m EXCEPT !.pc = @ + 2] ELSE m

OpAnnn(m, nnn) == [m EXCEPT !.i = nnn]

OpBnnn(m, nnn) == [m EXCEPT !.pc = nnn + m.v[0]]

\* rnd is the byte self.rng.random::<u8>() returns
OpCxnn(m, x, nn, rnd) == [m EXCEPT !.v[x] = BitAnd(rnd, nn)]

\* ---- Dxyn

\* 'xloop from bit_idx down to 0, at column posx of row posy
RECURSIVE XLoop(_, _, _, _, _)
XLoop(m, data, posx, posy, bit_idx) ==
    LET value == Bit(data, bit_idx)
        px == posx + posy * DISPLAY_WIDTH
        m1 == IF value = 1
              THEN LET c == IF PixelGet(m.display, px) THEN [m EXCEPT !.v[15] = 1] ELSE m
                   IN [c EXCEPT !.display = PixelToggle(@, px)]
              ELSE m
        nx == posx + 1
    IN IF nx >= DISPLAY_WIDTH \/ bit_idx = 0
       THEN m1
       ELSE XLoop(m1, data, nx, posy, bit_idx - 1)

\* 'yloop from row up to n - 1, at row posy
RECURSIVE YLoop(_, _, _, _, _, _)
YLoop(m, x, n, sprite_addr, posy, row) ==
    IF row >= n THEN m
    ELSE IF sprite_addr + row >= RAM_SIZE THEN IndexOutOfBounds(m)
    ELSE LET posx == m.v[x] % DISPLAY_WIDTH
             data == RamGet(m.ram, sprite_addr + row)
             m1 == XLoop(m, data, posx, posy, 7)
             ny == posy + 1
         IN IF ny >= DISPLAY_HEIGHT
            THEN m1
            ELSE YLoop(m1, x, n, sprite_addr, ny, row + 1)

\* the draw that leaves VF as it was before the loops
DrawSpriteKeepVF(m, x, y, n) ==
    YLoop(m, x, n, m.i, m.v[y] % DISPLAY_HEIGHT, 0)

DrawSprite(m, x, y, n) ==
    LET m0 == [m EXCEPT !.v[15] = 0]
    IN YLoop(m0, x, n, m0.i, m0.v[y] % DISPLAY_HEIGHT, 0)

\* the blocked draw that does not rewind pc
BlockOnDrawNoRewind(m) == m

\* block on the instruction until the next render
BlockOnDraw(m) == [m EXCEPT !.pc = @ - 2]

\* the draw that waits whatever the render flag
OpDxynKeepWaiting(m, x, y, n, blank) == BlockOnDraw(m)

OpDxyn(m, x, y, n, blank) ==
    IF ~blank THEN BlockOnDraw(m) ELSE DrawSprite(m, x, y, n)

\* ---- keys

OpEx9E(m, x, kp) ==
    IF m.v[x] >= NUM_KEYS THEN IndexOutOfBounds(m)
    ELSE IF kp.pressed[m.v[x]] THEN [m EXCEPT !.pc = @ + 2] ELSE m

OpExA1(m, x, kp) ==
    IF m.v[x] >= NUM_KEYS THEN IndexOutOfBounds(m)
    ELSE IF ~kp.pressed[m.v[x]] THEN [m EXCEPT !.pc = @ + 2] ELSE m

\* the scan that takes a key that is down, not one that was released
RECURSIVE ScanKeysPressed(_, _)
ScanKeysPressed(kp, k) ==
    IF k >= NUM_KEYS THEN NUM_KEYS
    ELSE IF kp.pressed[k] THEN k
    ELSE ScanKeysPressed(kp, k + 1)

\* the scan of Fx0A from key k on: the first released key, 16 when there is none
RECURSIVE ScanKeys(_, _)
ScanKeys(kp, k) ==
    IF k >= NUM_KEYS THEN NUM_KEYS
    ELSE IF kp.pressed_last[k] /\ ~kp.pressed[k] THEN k
    ELSE ScanKeys(kp, k + 1)

\* keep executing the instruction
BlockOnKey(m) == [m EXCEPT !.pc = @ - 2]

OpFx0A(m, x, kp) ==
    LET k == ScanKeys(kp, 0)
    IN IF k > 15 THEN BlockOnKey(m) ELSE [m EXCEPT !.v[x] = k]

\* ---- timers and index

OpFx07(m, x) == [m EXCEPT !.v[x] = m.delay_timer]

OpFx15(m, x) == [m EXCEPT !.delay_timer = m.v[x]]

OpFx18(m, x) == [m EXCEPT !.sound_timer = m.v[x]]

OpFx1E(m, x) ==
    LET m1 == [m EXCEPT !.i = @ + m.v[x]]
    IN IF m1.i >= 4096
       THEN LET m2 == [m1 EXCEPT !.v[15] = 1] IN [m2 EXCEPT !.i = @ % 4096]
       ELSE m1

OpFx29(m, x) == [m EXCEPT !.i = FONT_BASE + m.v[x] * 5]

\* self.ram[addr] = value
RamWrite(m, addr, value) ==
    IF addr >= RAM_SIZE THEN IndexOutOfBounds(m)
    ELSE [m EXCEPT !.ram = RamSet(@, addr, value)]

OpFx33(m, x) ==
    LET vx == m.v[x]
        m1 == RamWrite(m, m.i, vx \div 100)
        m2 == IF m1.panicked # "" THEN m1 ELSE RamWrite(m1, m1.i + 1, (vx % 100) \div 10)
    IN IF m2.panicked # "" THEN m2 ELSE RamWrite(m2, m2.i + 2, (vx % 100) % 10)

\* the loops of Fx55 from register k up to x
RECURSIVE StoreQuirk(_, _, _)
StoreQuirk(m, x, k) ==
    IF k > x THEN m
    ELSE LET m1 == RamWrite(m, m.i, m.v[k])
         IN IF m1.panicked # "" THEN m1
            ELSE StoreQuirk([m1 EXCEPT !.i = @ + 1], x, k + 1)

RECURSIVE StoreNoQuirk(_, _, _)
StoreNoQuirk(m, x, k) ==
    IF k > x THEN m
    ELSE LET m1 == RamWrite(m, m.i + k, m.v[k])
         IN IF m1.panicked # "" THEN m1 ELSE StoreNoQuirk(m1, x, k + 1)

OpFx55(m, x) == IF m.cosmac_quirks THEN StoreQuirk(m, x, 0) ELSE StoreNoQuirk(m, x, 0)

\* self.v[k] = self.ram[addr]
RamRead(m, k, addr) ==
    IF addr >= RAM_SIZE THEN IndexOutOfBounds(m)
    ELSE [m EXCEPT !.v[k] = RamGet(m.ram, addr)]

\* the loops of Fx65 from register k up to x
RECURSIVE LoadQuirk(_, _, _)
LoadQuirk(m, x, k) ==
    IF k > x THEN m
    ELSE LET m1 == RamRead(m, k, m.i)
         IN IF m1.panicked # "" THEN m1
            ELSE LoadQuirk([m1 EXCEPT !.i = @ + 1], x, k + 1)

RECURSIVE LoadNoQuirk(_, _, _)
LoadNoQuirk(m, x, k) ==
    IF k > x THEN m
    ELSE LET m1 == RamRead(m, k, m.i + k)
         IN IF m1.panicked # "" THEN m1 ELSE LoadNoQuirk(m1, x, k + 1)

OpFx65(m, x) == IF m.cosmac_quirks THEN LoadQuirk(m, x, 0) ELSE LoadNoQuirk(m, x, 0)

\* ---- dispatch

Exec0(m, instr) ==
    IF instr = 224 THEN Op00E0(m)
    ELSE IF instr = 238 THEN Op00EE(m)
    ELSE UnknownInstruction(m)

Exec5(m, x, y, n) == IF n = 0 THEN Op5xy0(m, x, y) ELSE UnknownInstruction(m)

Exec8(m, x, y, n) ==
    IF n = 0 THEN Op8xy0(m, x, y)
    ELSE IF n = 1 THEN Op8xy1(m, x, y)
    ELSE IF n = 2 THEN Op8xy2(m, x, y)
    ELSE IF n = 3 THEN Op8xy3(m, x, y)
    ELSE IF n = 4 THEN Op8xy4(m, x, y)
    ELSE IF n = 5 THEN Op8xy5(m, x, y)
    ELSE IF n = 6 THEN Op8xy6(m, x, y)
    ELSE IF n = 7 THEN Op8xy7(m, x, y)
    ELSE IF n = 14 THEN Op8xyE(m, x, y)
    ELSE UnknownInstruction(m)

\* 9xyn executed as 9xy0 whatever n is
Exec9AnyN(m, x, y, n) == Op9xy0(m, x, y)

Exec9(m, x, y, n) == IF n = 0 THEN Op9xy0(m, x, y) ELSE UnknownInstruction(m)

ExecE(m, x, nn, kp) ==
    IF nn = 158 THEN OpEx9E(m, x, kp)
    ELSE IF nn = 161 THEN OpExA1(m, x, kp)
    ELSE UnknownInstruction(m)

ExecF(m, x, nn, kp) ==
    IF nn = 7 THEN OpFx07(m, x)
    ELSE IF nn = 21 THEN OpFx15(m, x)
    ELSE IF nn = 24 THEN OpFx18(m, x)
    ELSE IF nn = 30 THEN OpFx1E(m, x)
    ELSE IF nn = 10 THEN OpFx0A(m, x, kp)
    ELSE IF nn = 41 THEN OpFx29(m, x)
    ELSE IF nn = 51 THEN OpFx33(m, x)
    ELSE IF nn = 85 THEN OpFx55(m, x)
    ELSE IF nn = 101 THEN OpFx65(m, x)
    ELSE UnknownInstruction(m)

\* the default arm of the match: the message is printed, nothing else happens
DefaultArm(m) == m

\* match (instr & 0xf000) >> 12
Execute(m, instr, kp, blank, rnd) ==
    LET op == DecodeOp(instr)
        x == DecodeX(instr)
        y == DecodeY(instr)
        n == DecodeN(instr)
        nn == DecodeNN(instr)
        nnn == DecodeNNN(instr)
    IN CASE op = 0 -> Exec0(m, instr)
         [] op = 1 -> Op1nnn(m, nnn)
         [] op = 2 -> Op2nnn(m, nnn)
         [] op = 3 -> Op3xnn(m, x, nn)
         [] op = 4 -> Op4xnn(m, x, nn)
         [] op = 5 -> Exec5(m, x, y, n)
         [] op = 6 -> Op6xnn(m, x, nn)
         [] op = 7 -> Op7xnn(m, x, nn)
         [] op = 8 -> Exec8(m, x, y, n)
         [] op = 9 -> Exec9(m, x, y, n)
         [] op = 10 -> OpAnnn(m, nnn)
         [] op = 11 -> OpBnnn(m, nnn)
         [] op = 12 -> OpCxnn(m, x, nn, rnd)
         [] op = 13 -> OpDxyn(m, x, y, n, blank)
         [] op = 14 -> ExecE(m, x, nn, kp)
         [] op = 15 -> ExecF(m, x, nn, kp)
         [] OTHER -> DefaultArm(m)

\* self.pc += 2
AdvancePc(m) == [m EXCEPT !.pc = @ + 2]

\* update with pc advanced before the fetch is checked
UpdateAdvanceFirst(m, d, kp, blank, rnd) ==
    LET t == UpdateTimers(m, d)
    IN IF FetchPanic(t) # ""
       THEN Panic(AdvancePc(t), FetchPanic(t))
       ELSE Execute(AdvancePc(t), FetchInstr(t), kp, blank, rnd)

\* update with the timers updated after the instruction
UpdateTimersLast(m, d, kp, blank, rnd) ==
    IF FetchPanic(m) # ""
    THEN Panic(UpdateTimers(m, d), FetchPanic(m))
    ELSE UpdateTimers(Execute(AdvancePc(m), FetchInstr(m), kp, blank, rnd), d)

\* Chip8State::update(delta, keypad, blank_interrupt)
Update(m, d, kp, blank, rnd) ==
    LET t == UpdateTimers(m, d)
    IN IF FetchPanic(t) # ""
       THEN Panic(t, FetchPanic(t))
       ELSE Execute(AdvancePc(t), FetchInstr(t), kp, blank, rnd)

\* ------------------------------------------------------------ programs

\* the bytes of a program given as instruction words
RECURSIVE RomOf(_)
RomOf(words) ==
    IF words = <<>> THEN <<>>
    ELSE WordBytes(Head(words)) \o RomOf(Tail(words))

\* a rom that fills the memory up to its end: words at 0x200, zeros, and the
\* word last in the last two bytes (address 0xFFE)
RomToEnd(words, last) ==
    [k \in 1..(RAM_SIZE - ROM_BASE) |->
        IF k <= 2 * Len(words) THEN RomOf(words)[k]
        ELSE IF k = RAM_SIZE - ROM_BASE - 1 THEN WordBytes(last)[1]
        ELSE IF k = RAM_SIZE - ROM_BASE THEN WordBytes(last)[2]
        ELSE 0]

\* A050 D015 D015 1202: draw the glyph 0 twice at (0,0), again and again
ProgDraw == <<41040, 53269, 53269, 4610>>
\* 603E 611F A050 D015 1208: a glyph clipped at the right and bottom edges
ProgDrawEdge == <<24638, 24863, 41040, 53269, 4616>>
\* AFFF D002 1204: a sprite whose second row lies past the end of memory
ProgDrawEnd == <<45055, 53250, 4612>>
\* F30A 1200: wait for a key, again and again
ProgKey == <<62218, 4608>>
\* 6001 F015 6002 F018 F107 1208: delay timer 1, sound timer 2, then read the
\* delay timer again and again
ProgTimer == <<24577, 61461, 24578, 61464, 61703, 4616>>
\* 2200: a call of itself
ProgCall == <<8704>>
\* 00EE: a return with no call
ProgRet == <<238>>
\* 2206 2206 1204 00EE: two calls that return
ProgCallRet == <<8710, 8710, 4612, 238>>
\* 6005 E09E E0A1 6010 6010 E0A1: skips on key 5, then on the key number 16
ProgSkipKeys == <<24581, 57502, 57505, 24592, 24592, 57505>>
\* AFFF 60FF F01E F029 AFFD F033 AFFE F033: index arithmetic and digits at the end
ProgIndex == <<45055, 24831, 61470, 61481, 45053, 61491, 45054, 61491>>
\* A300 60FE 6102 F155 6000 F165 F033 1200: store, load and digits inside memory
ProgStoreLoad == <<41728, 24830, 24834, 61781, 24576, 61797, 61491, 4608>>
\* AFFF F055 F065 F155: store and load at the last byte of memory
ProgStoreEnd == <<45055, 61525, 61541, 61781>>
\* 60FF BFFF: a jump to 0xFFF + 0xFF
ProgJumpV0 == <<24831, 49151>>
\* 1FFF: a jump to the last byte of memory
ProgJumpLast == <<8191>>
\* 60FF 6101 7002 8014 8015 8017 8016 801E 8011 8012 8013 8010 C0FF 00E0 1200
ProgArith ==
    <<24831, 24833, 28674, 32788, 32789, 32791, 32790, 32798, 32785, 32786, 32787,
      32784, 49407, 224, 4608>>
\* 3000 4000 5010 9010 3001 1200 4001 1200 6101 5010 1200 9010 1200 1200: the skips
ProgSkips ==
    <<12288, 16384, 20496, 36880, 12289, 4608, 16385, 4608, 24833, 20496, 4608,
      36880, 4608, 4608>>
\* A050 D015 00E0 1200: draw the glyph 0 at (0,0) and clear the display, again
\* and again
ProgDrawClear == <<41040, 53269, 224, 4608>>
\* 6003 F015 F018 D005 F10A F207 1200: both timers 3, a draw that waits for a
\* render, a wait for a key, then the delay timer is read
ProgTimerWait == <<24579, 61461, 61464, 53253, 61706, 61959, 4608>>
\* words of no instruction: 0000 0123 00E1 5011 9011 8008 800F E000 E09F F000 F0FF
UnknownWords == {0, 291, 225, 20497, 36881, 32776, 32783, 57344, 57503, 61440, 61695}

\* the roms the machine is created from
Programs ==
    { RomOf(p) : p \in { ProgDraw, ProgDrawEdge, ProgDrawEnd, ProgKey, ProgTimer,
                         ProgCall, ProgRet, ProgCallRet, ProgSkipKeys, ProgIndex,
                         ProgStoreLoad, ProgStoreEnd, ProgJumpV0, ProgJumpLast,
                         ProgArith, ProgSkips, ProgDrawClear, ProgTimerWait } }
    \cup { RomOf(<<w>>) : w \in UnknownWords }
    \* 1FFE, and at 0xFFE: 6000 (run off the end), 3000 (skip off the end)
    \cup { RomToEnd(<<8190>>, last) : last \in {24576, 12288} }

\* ------------------------------------------------------------ inputs of a step

\* a keypad array from the set of the keys that are down
KeyArray(down) == [k \in 0..(NUM_KEYS - 1) |-> k \in down]

Chip8Keypad(last, down) == [pressed |-> KeyArray(down), pressed_last |-> KeyArray(last)]

\* nothing; key 5 goes down; key 5 held; key 5 released; keys 2 and 5 released
\* together; key 15 released while key 0 is held
KeypadSet ==
    { Chip8Keypad({}, {}), Chip8Keypad({}, {5}), Chip8Keypad({5}, {5}),
      Chip8Keypad({5}, {}), Chip8Keypad({2, 5}, {}), Chip8Keypad({0, 15}, {0}) }

\* elapsed times in nanoseconds: none, 16000.5 microseconds (less than a timer
\* interval), one timer interval, 34000 microseconds (more than two intervals)
DeltaSet == {0, 16000500, 16667000, 34000000}

\* bytes the random generator returns
RandSet == {0, 171, 255}

\* ------------------------------------------------------------ the machine driven step by step

Install(r) ==
    /\ ram' = r.ram
    /\ pc' = r.pc
    /\ i' = r.i
    /\ v' = r.v
    /\ delay_timer' = r.delay_timer
    /\ sound_timer' = r.sound_timer
    /\ stack' = r.stack
    /\ display' = r.display
    /\ cosmac_quirks' = r.cosmac_quirks
    /\ elapsed_us' = r.elapsed_us
    /\ panicked' = r.panicked

\* the instruction a step of m fetches (m with the timers updated), -1 when the
\* fetch panics
Fetched(m) == IF FetchPanic(m) # "" THEN -1 ELSE FetchInstr(m)

IsFx15(instr) == instr >= 0 /\ DecodeOp(instr) = 15 /\ DecodeNN(instr) = 21
IsFx18(instr) == instr >= 0 /\ DecodeOp(instr) = 15 /\ DecodeNN(instr) = 24
IsFx0A(instr) == instr >= 0 /\ DecodeOp(instr) = 15 /\ DecodeNN(instr) = 10
IsDxyn(instr) == instr >= 0 /\ DecodeOp(instr) = 13
Is2nnn(instr) == instr >= 0 /\ DecodeOp(instr) = 2
Is00EE(instr) == instr = 238

\* the bytes the random generator can return in a step of m (timers updated): it
\* is called by Cxnn alone
RandomBytes(m) ==
    IF Fetched(m) >= 0 /\ DecodeOp(Fetched(m)) = 12 THEN RandSet ELSE {0}

\* the history of a call of update with elapsed time d
Record(d) ==
    /\ fetched' = Fetched(UpdateTimers(Cur, d))
    /\ total_us' = total_us + AsMicros(d)
    /\ timer_set' =
         [ delay |-> IF IsFx15(Fetched(UpdateTimers(Cur, d)))
                     THEN [value |-> delay_timer', at |-> total_us' \div TIMER_DECREMENT_INTERVAL_US]
                     ELSE timer_set.delay,
           sound |-> IF IsFx18(Fetched(UpdateTimers(Cur, d)))
                     THEN [value |-> sound_timer', at |-> total_us' \div TIMER_DECREMENT_INTERVAL_US]
                     ELSE timer_set.sound ]
    /\ retry' = [ latest |-> /\ IsDxyn(fetched') \/ IsFx0A(fetched')
                             /\ pc' = pc
                             /\ panicked' = "",
                  before |-> retry.latest ]
    /\ calls' = IF panicked' # "" THEN calls
                ELSE IF Is2nnn(fetched') THEN Append(calls, pc)
                ELSE IF Is00EE(fetched') THEN SubSeq(calls, 1, Len(calls) - 1)
                ELSE calls

MachineInit(roms) ==
    /\ \E rom \in roms, cosmac \in BOOLEAN :
         \E m \in {Chip8State_new(rom, cosmac)} :
            /\ ram = m.ram
            /\ pc = m.pc
            /\ i = m.i
            /\ v = m.v
            /\ delay_timer = m.delay_timer
            /\ sound_timer = m.sound_timer
            /\ stack = m.stack
            /\ display = m.display
            /\ cosmac_quirks = m.cosmac_quirks
            /\ elapsed_us = m.elapsed_us
            /\ panicked = m.panicked
    /\ delta = 0
    /\ keypad = Chip8Keypad({}, {})
    /\ blank_interrupt = FALSE
    /\ fetched = -2
    /\ total_us = 0
    /\ timer_set = [delay |-> [value |-> 0, at |-> 0], sound |-> [value |-> 0, at |-> 0]]
    /\ retry = [latest |-> FALSE, before |-> FALSE]
    /\ calls = <<>>

MainInit(cycles) ==
    /\ host_pc = "events"
    /\ now = 0
    /\ prev_update = 0
    /\ lag_us = 0
    /\ prev_render = 0
    /\ cycle_idx = 0
    /\ num_cycles = cycles
    /\ just_rendered = FALSE
    /\ beeping = FALSE
    /\ catchups = 0
    /\ ticks = 0
    /\ render_pending = FALSE
    /\ draws = 0

Init == MachineInit(Programs) /\ MainInit(0)

\* one call of update, with any arguments
Step ==
    /\ panicked = ""
    /\ \E d \in {e \in DeltaSet : total_us + AsMicros(e) <= MaxTotalUs} :
       \E kp \in KeypadSet, b \in BOOLEAN, rnd \in RandomBytes(UpdateTimers(Cur, d)) :
         /\ \E r \in {Update(Cur, d, kp, b, rnd)} : Install(r)
         /\ delta' = d
         /\ keypad' = kp
         /\ blank_interrupt' = b
         /\ Record(d)
    /\ UNCHANGED hostVars

Next == Step

Spec == Init /\ [][Next]_vars

\* ------------------------------------------------------------ every instruction word

\* roms of one instruction word, of the families in which some words are no
\* instruction: 00nn, Exnn and Fxnn with every low byte, 0nnn with other high
\* digits, 5xyn, 8xyn and 9xyn with every n
DecodeWords ==
    { op * 4096 + x * 256 + nn : op \in {0, 14, 15}, x \in {0}, nn \in 0..255 }
    \cup { x * 256 + nn : x \in {1, 15}, nn \in {0, 224, 238, 255} }
    \cup { op * 4096 + xy * 16 + n : op \in {5, 8, 9}, xy \in {0, 18}, n \in 0..15 }

DecodeInit == MachineInit({ RomOf(<<w>>) : w \in DecodeWords }) /\ MainInit(0)

SpecDecode == DecodeInit /\ [][Next]_vars

\* ------------------------------------------------------------ single instructions on chosen operands

\* one call of update with the elapsed times, keypads and render flags given
StepWith(deltas, keypads, blanks) ==
    /\ panicked = ""
    /\ \E d \in {e \in deltas : total_us + AsMicros(e) <= MaxTotalUs} :
       \E kp \in keypads, b \in blanks, rnd \in RandomBytes(UpdateTimers(Cur, d)) :
         /\ \E r \in {Update(Cur, d, kp, b, rnd)} : Install(r)
         /\ delta' = d
         /\ keypad' = kp
         /\ blank_interrupt' = b
         /\ Record(d)
    /\ UNCHANGED hostVars

\* a call with no time elapsed, no key down, after a render
StepQuiet == StepWith({0}, {Chip8Keypad({}, {})}, {TRUE})

NextQuiet == StepQuiet

\* a call with no time elapsed, no key down, after a render or not
StepDraw == StepWith({0}, {Chip8Keypad({}, {})}, BOOLEAN)

NextDraw == StepDraw

\* 6Fvf 6xvx 6yvy Aaddr Dxyn Dxyn 120C: VF, the coordinates and I are set, the
\* sprite of n rows at addr is drawn twice, and the program stays where it is
ProgDrawAt(vf, x, vx, y, vy, addr, n) ==
    <<28416 + vf, 24576 + x * 256 + vx, 24576 + y * 256 + vy, 40960 + addr,
      53248 + x * 256 + y * 16 + n, 53248 + x * 256 + y * 16 + n, 4620>>

\* sprites of 0, 5 and 15 rows from the font, from the program's own bytes and
\* from the last two bytes of memory; origins inside the display, at its edges
\* and past them; VF zero or not, and VF as a coordinate register
DrawPrograms ==
    { RomOf(ProgDrawAt(vf, xy[1], vx, xy[2], vy, addr, n)) :
        vf \in {0, 5}, xy \in {<<0, 1>>, <<15, 1>>, <<1, 15>>, <<2, 2>>},
        vx \in {0, 60, 63, 70, 255}, vy \in {0, 29, 31, 33},
        addr \in {80, 512, 4094}, n \in {0, 5, 15} }

DrawInit == MachineInit(DrawPrograms) /\ MainInit(0)

SpecDraw == DrawInit /\ [][NextDraw]_vars

\* operand values: the ends of the range, the values around the sign bit, and
\* the two alternating bit patterns
Vals == {0, 1, 2, 85, 127, 128, 170, 254, 255}

\* pairs of register indices: distinct, equal, and VF as x, as y and as both
RegPairs == {<<0, 1>>, <<1, 0>>, <<3, 3>>, <<15, 1>>, <<1, 15>>, <<15, 15>>}

\* 6Fvf 6xvx 6yvy w 1208: VF, Vx and Vy are set, the instruction w is executed,
\* and the program stays where it is
ProgAlu(vf, x, vx, y, vy, w) ==
    <<28416 + vf, 24576 + x * 256 + vx, 24576 + y * 256 + vy, w, 4616>>

\* 8xy1, 8xy2, 8xy3 on every pair of registers; 8xy6, 8xyE, 8xy4, 8xy5, 8xy7 on
\* the pairs of RegPairs with every pair of operand values; 7xnn on V0 and VF
AluPrograms ==
    { RomOf(ProgAlu(1, x, vv[1], y, vv[2], 32768 + x * 256 + y * 16 + n)) :
        x \in 0..(NUM_REGS - 1), y \in 0..(NUM_REGS - 1), n \in {1, 2, 3},
        vv \in {<<12, 10>>, <<240, 15>>} }
    \cup { RomOf(ProgAlu(1, xy[1], vx, xy[2], vy, 32768 + xy[1] * 256 + xy[2] * 16 + n)) :
        xy \in RegPairs, n \in {4, 5, 6, 7, 14}, vx \in Vals, vy \in Vals }
    \cup { RomOf(ProgAlu(1, x, vx, x, vx, 28672 + x * 256 + nn)) :
        x \in {0, 15}, vx \in Vals, nn \in Vals }

AluInit == MachineInit(AluPrograms) /\ MainInit(0)

SpecAlu == AluInit /\ [][NextQuiet]_vars

\* Aaddr 60AA 6155 62FF 6F0F Fx55 6000 6100 6F00 Aaddr Fx65 1216: V0..Vx are
\* stored at addr, the registers are changed, and V0..Vx are loaded from addr
ProgStoreThenLoad(addr, x) ==
    <<40960 + addr, 24746, 24917, 25343, 28431, 61525 + x * 256, 24576, 24832, 28416,
      40960 + addr, 61541 + x * 256, 4630>>

\* Aaddr 6xvalue Fx33 1206: the digits of value are written at addr
ProgDigits(addr, x, value) ==
    <<40960 + addr, 24576 + x * 256 + value, 61491 + x * 256, 4614>>

\* stores and loads of 1, 2, 3 and 16 registers inside the memory, over the
\* program itself, up to the last byte of memory and past it; the digits of
\* every byte inside the memory, and of 9 and 254 at the last bytes of memory
MemPrograms ==
    { RomOf(ProgStoreThenLoad(addr, x)) :
        addr \in {512, 768, 4080, 4094, 4095}, x \in {0, 1, 2, 15} }
    \cup { RomOf(ProgDigits(768, 0, value)) : value \in 0..255 }
    \cup { RomOf(ProgDigits(addr, x, value)) :
        addr \in {4093, 4094, 4095}, x \in {0, 15}, value \in {9, 254} }

MemInit == MachineInit(MemPrograms) /\ MainInit(0)

SpecMem == MemInit /\ [][NextQuiet]_vars

\* 2206 220A 1204 220A 00EE 220E 00EE 00EE: a routine that calls a routine that
\* calls a routine, then the second routine called again
ProgNest == <<8710, 8714, 4612, 8714, 238, 8718, 238, 238>>

\* 60cc 2206 1204 70FF 3000 2206 00EE: a routine that calls itself to the depth
\* cc and returns from every call
ProgRecurse(cc) == <<24576 + cc, 8710, 4612, 28927, 12288, 8710, 238>>

\* nested calls to the depths 1, 2, 3, to the capacity of the stack and past it
CallPrograms ==
    { RomOf(p) : p \in {ProgNest, ProgCall, ProgRet, ProgCallRet} }
    \cup { RomOf(ProgRecurse(cc)) : cc \in {1, 2, 3, STACK_CAPACITY, STACK_CAPACITY + 1, 70} }

CallInit == MachineInit(CallPrograms) /\ MainInit(0)

SpecCall == CallInit /\ [][NextQuiet]_vars

\* ------------------------------------------------------------ main

\* the roms of the host runs
HostPrograms == { RomOf(p) : p \in {ProgDraw, ProgTimer} }

\* the cycle bound of the command line, 0 for none
CyclesSet == {0, 3}

\* the keys the keyboard state can report down
KeyDownSets == {{}, {5}}

\* the time that passes between two actions of the host, in nanoseconds
TickSet == {1000000, 17000000}

\* Instant::elapsed
Elapsed(since) == now - since

\* the wall clock advances: while the host waits for the events of the next
\* iteration, and while the body of the catch-up loop runs
Tick ==
    /\ host_pc \in {"events", "cycle"}
    /\ ticks < MaxTicks
    /\ \E t \in TickSet : now' = now + t
    /\ ticks' = ticks + 1
    /\ UNCHANGED <<machineVars, callVars, historyVars>>
    /\ UNCHANGED <<host_pc, prev_update, lag_us, prev_render, cycle_idx, num_cycles, just_rendered, beeping, catchups>>
    /\ UNCHANGED <<render_pending, draws>>

\* the events of the iteration: Quit or Escape leaves the loop
HandleEvents ==
    /\ host_pc = "events"
    /\ \E quit \in BOOLEAN : host_pc' = IF quit THEN "done" ELSE "lag"
    /\ UNCHANGED <<machineVars, callVars, historyVars>>
    /\ UNCHANGED <<now, prev_update, lag_us, prev_render, cycle_idx, num_cycles, just_rendered, beeping, catchups, ticks>>
    /\ UNCHANGED <<render_pending, draws>>

\* lag_us += prev_update.elapsed().as_micros()
AccumulateLag ==
    /\ host_pc = "lag"
    /\ lag_us' = lag_us + AsMicros(Elapsed(prev_update))
    /\ host_pc' = "while"
    /\ UNCHANGED <<machineVars, callVars, historyVars>>
    /\ UNCHANGED <<now, prev_update, prev_render, cycle_idx, num_cycles, just_rendered, beeping, catchups, ticks>>
    /\ UNCHANGED <<render_pending, draws>>

\* while lag_us >= CHIP8_UPDATE_TIME_US, and the first line of its body:
\* delta = prev_update.elapsed()
LoopTest ==
    /\ host_pc = "while"
    /\ IF lag_us >= CHIP8_UPDATE_TIME_US
       THEN delta' = Elapsed(prev_update) /\ host_pc' = "cycle"
       ELSE delta' = delta /\ host_pc' = "render"
    /\ UNCHANGED <<machineVars, keypad, blank_interrupt, fetched, historyVars>>
    /\ UNCHANGED <<now, prev_update, lag_us, prev_render, cycle_idx, num_cycles, just_rendered, beeping, catchups, ticks>>
    /\ UNCHANGED <<render_pending, draws>>

\* the sound device follows the sound timer
Beeping(was, timer) ==
    IF timer > 0 /\ ~was THEN TRUE
    ELSE IF was /\ timer = 0 THEN FALSE
    ELSE was

\* just_rendered = false after the call of update, with the flag kept instead
FlagKeptAfterUpdate == just_rendered

\* just_rendered = false after the call of update
FlagAfterUpdate == FALSE

\* the rest of the body of the catch-up loop: prev_update = Instant::now(), the
\* keypad snapshot, the step of the machine when the cycle bound allows it,
\* lag_us -= CHIP8_UPDATE_TIME_US
CatchUp ==
    /\ host_pc = "cycle"
    /\ prev_update' = now
    /\ \E down \in KeyDownSets :
         keypad' = [pressed |-> KeyArray(down), pressed_last |-> keypad.pressed]
    /\ IF cycle_idx < num_cycles \/ num_cycles = 0
       THEN /\ \E rnd \in RandomBytes(UpdateTimers(Cur, delta)) :
                 \E r \in {Update(Cur, delta, keypad', just_rendered, rnd)} : Install(r)
            /\ Record(delta)
            /\ blank_interrupt' = just_rendered
            /\ just_rendered' = FlagAfterUpdate
            /\ cycle_idx' = cycle_idx + 1
            /\ render_pending' = FALSE
            /\ draws' = IF IsDxyn(fetched') /\ pc' # pc THEN draws + 1 ELSE draws
            /\ beeping' = Beeping(beeping, sound_timer')
            /\ host_pc' = IF panicked' # "" THEN "done" ELSE "while"
       ELSE /\ UNCHANGED <<machineVars, blank_interrupt, fetched, historyVars>>
            /\ UNCHANGED <<just_rendered, cycle_idx, beeping, render_pending, draws>>
            /\ host_pc' = "while"
    /\ lag_us' = IF host_pc' = "done" THEN lag_us ELSE lag_us - CHIP8_UPDATE_TIME_US
    /\ catchups' = IF host_pc' = "done" THEN catchups ELSE catchups + 1
    /\ UNCHANGED <<delta, now, prev_render, num_cycles, ticks>>

\* just_rendered = true after the render
FlagAfterRender == TRUE

\* the frame: rendered when more than FRAMETIME_US passed since the last one
Render ==
    /\ host_pc = "render"
    /\ IF AsMicros(Elapsed(prev_render)) > FRAMETIME_US
       THEN prev_render' = now /\ just_rendered' = FlagAfterRender /\ render_pending' = TRUE /\ draws' = 0
       ELSE UNCHANGED <<prev_render, just_rendered, render_pending, draws>>
    /\ host_pc' = "events"
    /\ UNCHANGED <<machineVars, callVars, historyVars>>
    /\ UNCHANGED <<now, prev_update, lag_us, cycle_idx, num_cycles, beeping, catchups, ticks>>

HostInit == MachineInit(HostPrograms) /\ \E cycles \in CyclesSet : MainInit(cycles)

HostNext == Tick \/ HandleEvents \/ AccumulateLag \/ LoopTest \/ CatchUp \/ Render

SpecHost == HostInit /\ [][HostNext]_vars

\* ------------------------------------------------------------ main, running for ever

\* 00E0 A055 D011 1200: the display is cleared and the top row of the glyph 1
\* (the byte 0x20, one pixel) drawn at (0,0), again and again
ProgClearDraw == <<224, 41045, 53265, 4608>>

\* the rom of the runs without end
LivePrograms == { RomOf(ProgClearDraw) }

\* the time that passes between two iterations of the 'running loop, in
\* nanoseconds: two timer intervals, more than a frame
LiveTickSet == {2 * TIMER_DECREMENT_INTERVAL_US * 1000}

\* the earlier of the two instants the host keeps
Epoch == IF prev_update <= prev_render THEN prev_update ELSE prev_render

\* the events of an iteration that is not the last, and the time that passes
\* until they are read.  The host reads its instants through elapsed() alone,
\* so they are kept relative to the earlier of the two.
LiveEvents ==
    /\ host_pc = "events"
    /\ \E t \in LiveTickSet : now' = now - Epoch + t
    /\ prev_update' = prev_update - Epoch
    /\ prev_render' = prev_render - Epoch
    /\ host_pc' = "lag"
    /\ UNCHANGED <<machineVars, callVars, historyVars>>
    /\ UNCHANGED <<lag_us, cycle_idx, num_cycles, just_rendered, beeping, catchups, ticks>>
    /\ UNCHANGED <<render_pending, draws>>

\* the body of the catch-up loop as in CatchUp, with the history of the elapsed
\* time and of the iterations left out, with cycle_idx left out when there is
\* no cycle bound to compare it with, and with no key down
LiveCatchUp ==
    /\ host_pc = "cycle"
    /\ prev_update' = now
    /\ keypad' = [pressed |-> KeyArray({}), pressed_last |-> keypad.pressed]
    /\ IF cycle_idx < num_cycles \/ num_cycles = 0
       THEN /\ \E rnd \in RandomBytes(UpdateTimers(Cur, delta)) :
                 \E r \in {Update(Cur, delta, keypad', just_rendered, rnd)} : Install(r)
            /\ fetched' = Fetched(UpdateTimers(Cur, delta))
            /\ retry' = [ latest |-> /\ IsDxyn(fetched') \/ IsFx0A(fetched')
                                     /\ pc' = pc
                                     /\ panicked' = "",
                          before |-> retry.latest ]
            /\ blank_interrupt' = just_rendered
            /\ just_rendered' = FlagAfterUpdate
            /\ cycle_idx' = IF num_cycles = 0 THEN cycle_idx ELSE cycle_idx + 1
            /\ render_pending' = FALSE
            /\ draws' = IF IsDxyn(fetched') /\ pc' # pc THEN draws + 1 ELSE draws
            /\ beeping' = Beeping(beeping, sound_timer')
            /\ host_pc' = IF panicked' # "" THEN "done" ELSE "while"
       ELSE /\ UNCHANGED <<machineVars, blank_interrupt, fetched, retry>>
            /\ UNCHANGED <<just_rendered, cycle_idx, beeping, render_pending, draws>>
            /\ host_pc' = "while"
    /\ lag_us' = IF host_pc' = "done" THEN lag_us ELSE lag_us - CHIP8_UPDATE_TIME_US
    /\ UNCHANGED <<total_us, timer_set, calls, catchups>>
    /\ UNCHANGED <<delta, now, prev_render, num_cycles, ticks>>

\* a run without a cycle bound and without the quirks, which Dxyn does not read
LiveInit == MachineInit(LivePrograms) /\ MainInit(0) /\ ~cosmac_quirks

LiveNext == LiveEvents \/ AccumulateLag \/ LoopTest \/ LiveCatchUp \/ Render

\* the 'running loop is one thread that is never held up: its next statement
\* is executed
SpecHostLive == LiveInit /\ [][LiveNext]_vars /\ WF_vars(LiveNext)

\* ------------------------------------------------------------ claims

\* a transition that is a call of update: a step of the machine driven step by
\* step, or the catch-up of the host that steps the machine
Called ==
    \/ host_pc = "events" /\ host_pc' = "events" /\ now' = now
    \/ host_pc = "cycle" /\ cycle_idx' = cycle_idx + 1

\* the instruction the next call of update fetches
NextInstr == Fetched(Cur)

Max0(k) == IF k > 0 THEN k ELSE 0

MinOf(S) == CHOOSE k \in S : \A j \in S : k <= j

SymDiff(A, B) == (A \ B) \cup (B \ A)

\* the pixels under the 1 bits of the sprite of n rows at addr, drawn with its
\* origin at column vx mod 64, row vy mod 32, and clipped at the edges
SpriteCells(r, addr, vx, vy, n) ==
    { ((vx % DISPLAY_WIDTH) + rc[2]) + ((vy % DISPLAY_HEIGHT) + rc[1]) * DISPLAY_WIDTH :
        rc \in { q \in (0..(n - 1)) \X (0..7) :
                   /\ Bit(RamGet(r, addr + q[1]), 7 - q[2]) = 1
                   /\ (vx % DISPLAY_WIDTH) + q[2] <= DISPLAY_WIDTH - 1
                   /\ (vy % DISPLAY_HEIGHT) + q[1] <= DISPLAY_HEIGHT - 1 } }

\* ---- C1

C1_Blocked ==
    /\ pc' = pc
    /\ v' = v
    /\ i' = i
    /\ ram' = ram
    /\ stack' = stack
    /\ display' = display
    /\ panicked' = ""
    /\ NextInstr' = NextInstr

C1_Drawn ==
    LET x == DecodeX(NextInstr)
        y == DecodeY(NextInstr)
        n == DecodeN(NextInstr)
        \* VF is reset before the origin row is read
        vy == IF y = 15 THEN 0 ELSE v[y]
        rows == { r \in 0..(n - 1) : (vy % DISPLAY_HEIGHT) + r <= DISPLAY_HEIGHT - 1 }
    IN /\ panicked' = "" <=> (\A r \in rows : i + r < RAM_SIZE)
       /\ panicked' = "" =>
            /\ pc' = pc + 2
            /\ (x # 15 /\ y # 15) =>
                 display' = SymDiff(display, SpriteCells(ram, i, v[x], v[y], n))

C1_Step ==
    (Called /\ panicked = "" /\ IsDxyn(NextInstr)) =>
        IF blank_interrupt' THEN C1_Drawn ELSE C1_Blocked

C2_Step ==
    LET x == DecodeX(NextInstr)
        released == { k \in 0..(NUM_KEYS - 1) : keypad'.pressed_last[k] /\ ~keypad'.pressed[k] }
        held == { k \in 0..(NUM_KEYS - 1) : keypad'.pressed_last[k] /\ keypad'.pressed[k] }
    IN (Called /\ panicked = "" /\ IsFx0A(NextInstr)) =>
         /\ panicked' = ""
         /\ released = {} => (pc' = pc /\ v' = v)
         /\ released # {} =>
              /\ pc' = pc + 2
              /\ v' = [v EXCEPT ![x] = MinOf(released)]
         /\ (held # {} /\ released = {}) => (pc' = pc /\ v' = v)

Intervals == total_us \div TIMER_DECREMENT_INTERVAL_US

C4_LagCountsWallTimeOnce ==
    lag_us + CHIP8_UPDATE_TIME_US * catchups <= AsMicros(now)

\* ---- C5

C5_Step ==
    (Called /\ panicked = "") =>
        /\ (Is2nnn(NextInstr) /\ stack.top < 64) =>
              /\ panicked' = ""
              /\ stack'.top = stack.top + 1
              /\ stack'.buffer[stack.top] = pc + 2
              /\ pc' = DecodeNNN(NextInstr)
        /\ (Is2nnn(NextInstr) /\ stack.top = 64) =>
              /\ panicked' = "stack push: explicit panic"
              /\ stack' = stack
        /\ (NextInstr = 238 /\ stack.top = 0) =>
              /\ panicked' = "stack pop: explicit panic"
              /\ stack' = stack

\* C5: a 2nnn fetched with fewer than 64 addresses on the stack succeeds and
\* makes the stack one deeper (so 64 nested calls from the empty stack all
\* succeed), a 2nnn fetched with 64 on it halts the machine, a 00EE fetched
\* with none on it halts the machine, and the depth is always within 0..64.
C5_StackWithinCapacity == [](stack.top \in 0..64) /\ [][C5_Step]_vars

\* the 65th nested call: 64 return addresses on the stack, the machine halted
\* by the push
C5_Witness ==
    /\ stack.top = 64
    /\ Is2nnn(fetched)
    /\ panicked = "stack push: explicit panic"

\* ---- C6

\* the words of no encoding of the opcode table
Unrecognized(w) ==
    LET op == w \div 4096
        n == w % 16
        nn == w % 256
    IN \/ op = 0 /\ w # 224 /\ w # 238
       \/ op \in {5, 9} /\ n # 0
       \/ op = 8 /\ n \in {8, 9, 10, 11, 12, 13, 15}
       \/ op = 14 /\ nn \notin {158, 161}
       \/ op = 15 /\ nn \notin {7, 10, 21, 24, 30, 41, 51, 85, 101}

\* C6: when the word the latest step fetched is of no encoding of the opcode
\* table, the machine is halted by the unknown-instruction panic of that step.
C6_UnknownWordHalts ==
    (fetched >= 0 /\ Unrecognized(fetched)) =>
        panicked = "Unknown instruction"

\* 8xyF was fetched and halted the machine
C6_Witness ==
    /\ fetched \div 4096 = 8
    /\ fetched % 16 = 15
    /\ panicked = "Unknown instruction"

\* ---- C7

\* C7: a step that fetched a recognized instruction, and that neither pushed
\* onto a full stack nor popped an empty one, completed normally.
C7_OnlyListedFatal ==
    (fetched >= 0 /\ ~Unrecognized(fetched)) =>
        panicked \in {"", "stack push: explicit panic", "stack pop: explicit panic"}

\* ---- C8

\* C8 as stated: pc is within [0, 4095] at the start of every step and after
\* every step that completes.
C8_PcWithinMemory == panicked = "" => pc \in 0..4095

FetchPanics ==
    { "fetch: range start index out of range",
      "fetch: Tried to fetch beyond end of ram",
      "fetch: TryFromSliceError" }

C8_Step ==
    (Called /\ panicked = "") =>
        /\ pc >= 4095 => (panicked' \in FetchPanics /\ pc' = pc)
        /\ pc <= 4094 => panicked' \notin FetchPanics

\* C8 amended: pc is within [0, 4350] (0xFFF + 0xFF) at the start of every step
\* and after every step; a step that starts with pc at 4095 or above halts at
\* fetch and a step that starts with pc at 4094 or below gets past the fetch.
C8_PcBoundedFetchGuards == [](pc \in 0..4350) /\ [][C8_Step]_vars

\* a skip fetched at 0xFFE has completed and left pc at 4098
C8_Witness ==
    /\ pc = 4098
    /\ DecodeOp(fetched) = 3
    /\ panicked = ""

\* ---- C9

\* C9: I is below 4096 after every step that completes.
C9_IndexBelow4096 == panicked = "" => i < 4096

\* ---- C10

C10_Step ==
    (Called /\ panicked = "" /\ pc >= 4095) =>
        /\ panicked' \in FetchPanics
        /\ fetched' = -1
        /\ pc' = pc
        /\ v' = v
        /\ i' = i
        /\ ram' = ram
        /\ stack' = stack
        /\ display' = display

\* C10: a step whose pc or pc + 1 lies outside the memory (pc = 4095 or pc >=
\* 4096) halts at fetch: no instruction is fetched, and pc, registers, I,
\* memory, stack and display are as before the step.
C10_FetchOutsideMemoryHalts == [][C10_Step]_vars

\* a step that started with pc = 4096 was halted at fetch
C10_Witness ==
    /\ fetched = -1
    /\ pc = 4096
    /\ panicked = "fetch: Tried to fetch beyond end of ram"

\* ---- C11

C11_Step ==
    LET x == DecodeX(NextInstr)
        y == DecodeY(NextInstr)
        n == DecodeN(NextInstr)
    IN (Called /\ panicked = "" /\ IsDxyn(NextInstr) /\ blank_interrupt') =>
         display' = SymDiff(display, SpriteCells(ram, i, v[x], v[y], n))

\* C11: a Dxyn that executes inverts exactly the pixels under the 1
\* bits of the sprite, with the origin at column Vx mod 64, row Vy mod 32 for
\* the values Vx and Vy hold when the instruction is fetched, and clipped at the
\* right and bottom edges.
C11_OriginFromFetchedRegisters == [][C11_Step]_vars

\* ---- C12

C12_Step ==
    (Called /\ panicked = "" /\ IsDxyn(NextInstr) /\ blank_interrupt') =>
        v'[15] = IF display \ display' # {} THEN 1 ELSE 0

\* C12: after a Dxyn that executes, VF is 1 when the draw turned off a pixel
\* that was lit before it and 0 otherwise, whatever VF held before.
C12_VFIsCollision == [][C12_Step]_vars

\* a draw over its own sprite: pixels went off and VF is 1
C12_Witness ==
    /\ IsDxyn(fetched)
    /\ blank_interrupt
    /\ panicked = ""
    /\ v[15] = 1
    /\ display = {}
    /\ ~retry.latest

\* ---- C13

\* the fetched instruction is 8xyn with n one of ns
Is8xyn(instr, ns) == instr >= 0 /\ DecodeOp(instr) = 8 /\ DecodeN(instr) \in ns

\* the bit k of the result of 8xy1, 8xy2, 8xy3 from the bits of the operands
LogicBit(n, a, b) ==
    IF n = 1 THEN (IF a + b > 0 THEN 1 ELSE 0)
    ELSE IF n = 2 THEN a * b
    ELSE (a + b) % 2

\* value is the old Vx OR / AND / XOR Vy
IsLogicResult(n, value, vx, vy) ==
    /\ value \in 0..255
    /\ \A k \in 0..7 : Bit(value, k) = LogicBit(n, Bit(vx, k), Bit(vy, k))

C13_StepAnyX ==
    LET x == DecodeX(NextInstr)
        y == DecodeY(NextInstr)
        n == DecodeN(NextInstr)
    IN (Called /\ panicked = "" /\ Is8xyn(NextInstr, {1, 2, 3})) =>
         /\ IsLogicResult(n, v'[x], v[x], v[y])
         /\ v'[15] = IF cosmac_quirks THEN 0 ELSE v[15]

\* C13: after 8xy1, 8xy2 or 8xy3, for every pair of register indices x and y,
\* Vx is the old Vx OR / AND / XOR Vy, and VF is 0 in quirk mode and as it was
\* before the instruction otherwise.
C13_LogicAnyRegister == [][C13_StepAnyX]_vars

C13_Step ==
    LET x == DecodeX(NextInstr)
        y == DecodeY(NextInstr)
        n == DecodeN(NextInstr)
    IN (Called /\ panicked = "" /\ Is8xyn(NextInstr, {1, 2, 3})) =>
         /\ panicked' = ""
         /\ pc' = pc + 2
         /\ \A k \in 0..(NUM_REGS - 1) : (k # x /\ k # 15) => v'[k] = v[k]
         /\ x # 15 =>
              /\ IsLogicResult(n, v'[x], v[x], v[y])
              /\ v'[15] = IF cosmac_quirks THEN 0 ELSE v[15]
         /\ x = 15 =>
              IF cosmac_quirks THEN v'[15] = 0
              ELSE IsLogicResult(n, v'[15], v[15], v[y])

\* C13 amended: after 8xy1, 8xy2 or 8xy3 with x other than F, for every y, Vx
\* is the old Vx OR / AND / XOR Vy, and VF is 0 in quirk mode and as it was
\* before otherwise; with x = F, VF is 0 in quirk mode and the old VF OR / AND /
\* XOR Vy otherwise.  No other register changes.
C13_LogicThenQuirkReset == [][C13_Step]_vars

\* 8Fy1, 8Fy2 or 8Fy3 executed without the quirk left a result other than the
\* old VF (1) in VF; and with the quirk, 8xy1 left 0 in VF
C13_Witness ==
    /\ Is8xyn(fetched, {1, 2, 3})
    /\ panicked = ""
    /\ \/ DecodeX(fetched) = 15 /\ ~cosmac_quirks /\ v[15] > 1
       \/ DecodeX(fetched) = 2 /\ cosmac_quirks /\ v[15] = 0 /\ v[2] # 0

\* ---- C14

\* the value of Vx after the shift of src, and the bit shifted out
Shifted(n, src) == IF n = 6 THEN src \div 2 ELSE (src * 2) % 256

ShiftedOut(n, src) == IF n = 6 THEN src % 2 ELSE src \div 128

\* the registers after the fetched shift executed in the other mode
OtherModeV ==
    Execute(AdvancePc([Cur EXCEPT !.cosmac_quirks = ~cosmac_quirks]), NextInstr,
            Chip8Keypad({}, {}), TRUE, 0).v

C14_StepAnyX ==
    LET x == DecodeX(NextInstr)
        y == DecodeY(NextInstr)
        n == DecodeN(NextInstr)
        src == IF cosmac_quirks THEN v[y] ELSE v[x]
    IN (Called /\ panicked = "" /\ Is8xyn(NextInstr, {6, 14})) =>
         /\ v'[x] = Shifted(n, src)
         /\ v'[15] = ShiftedOut(n, src)
         /\ Shifted(n, v[x]) # Shifted(n, v[y]) => v'[x] # OtherModeV[x]

\* C14: after 8xy6 or 8xyE, Vx is Vy (quirk mode) or Vx (otherwise) shifted by
\* one bit, right for 8xy6 and left modulo 256 for 8xyE, VF is the bit shifted
\* out, and the two modes give different Vx whenever the shifted Vx and the
\* shifted Vy differ.
C14_ShiftAnyRegister == [][C14_StepAnyX]_vars

C14_Step ==
    LET x == DecodeX(NextInstr)
        y == DecodeY(NextInstr)
        n == DecodeN(NextInstr)
        src == IF cosmac_quirks THEN v[y] ELSE v[x]
    IN (Called /\ panicked = "" /\ Is8xyn(NextInstr, {6, 14})) =>
         /\ panicked' = ""
         /\ pc' = pc + 2
         /\ \A k \in 0..(NUM_REGS - 1) : (k # x /\ k # 15) => v'[k] = v[k]
         /\ v'[15] = ShiftedOut(n, src)
         /\ x # 15 =>
              /\ v'[x] = Shifted(n, src)
              /\ Shifted(n, v[x]) # Shifted(n, v[y]) => v'[x] # OtherModeV[x]

\* C14 amended: after 8xy6 or 8xyE, VF is the bit shifted out of Vy (quirk mode)
\* or of Vx (otherwise); with x other than F, Vx is that value shifted by one
\* bit, right for 8xy6 and left modulo 256 for 8xyE, and the two modes give
\* different Vx whenever the shifted Vx and the shifted Vy differ; with x = F
\* the shifted value is lost.  No other register changes.
C14_ShiftSourceByMode == [][C14_Step]_vars

\* a shift of V0 = 85 with V1 = 170 executed: quirk mode shifted V1, the other
\* mode V0
C14_Witness ==
    /\ Is8xyn(fetched, {6, 14})
    /\ panicked = ""
    /\ DecodeX(fetched) = 0
    /\ v[1] = 170
    /\ \/ cosmac_quirks /\ v[0] = Shifted(DecodeN(fetched), 170)
       \/ ~cosmac_quirks /\ v[0] = Shifted(DecodeN(fetched), 85)
    /\ v[15] = ShiftedOut(DecodeN(fetched), IF cosmac_quirks THEN 170 ELSE 85)

\* ---- C15

Is7xnn(instr) == instr >= 0 /\ DecodeOp(instr) = 7

\* the result and the flag of 8xy4, 8xy5, 8xy7 from the operands
ArithValue(n, vx, vy) ==
    IF n = 4 THEN (vx + vy) % 256
    ELSE IF n = 5 THEN (vx - vy) % 256
    ELSE (vy - vx) % 256

ArithFlag(n, vx, vy) ==
    IF n = 4 THEN (IF vx + vy > 255 THEN 1 ELSE 0)
    ELSE IF n = 5 THEN (IF vx < vy THEN 0 ELSE 1)
    ELSE (IF vy < vx THEN 0 ELSE 1)

C15_Add ==
    LET x == DecodeX(NextInstr)
    IN (Called /\ panicked = "" /\ Is7xnn(NextInstr)) =>
         /\ panicked' = ""
         /\ pc' = pc + 2
         /\ v' = [v EXCEPT ![x] = (v[x] + DecodeNN(NextInstr)) % 256]

C15_StepAnyX ==
    LET x == DecodeX(NextInstr)
        y == DecodeY(NextInstr)
        n == DecodeN(NextInstr)
    IN /\ C15_Add
       /\ (Called /\ panicked = "" /\ Is8xyn(NextInstr, {4, 5, 7})) =>
            /\ v'[x] = ArithValue(n, v[x], v[y])
            /\ v'[15] = ArithFlag(n, v[x], v[y])

\* C15: 7xnn sets Vx to (Vx + nn) mod 256; 8xy4 sets Vx to (Vx + Vy) mod 256 and
\* VF to 1 exactly when Vx + Vy > 255; 8xy5 sets Vx to (Vx - Vy) mod 256 and VF
\* to 0 exactly when Vx < Vy; 8xy7 sets Vx to (Vy - Vx) mod 256 and VF to 0
\* exactly when Vy < Vx; the operands are the values before the instruction.
C15_ArithAnyRegister == [][C15_StepAnyX]_vars

C15_Step ==
    LET x == DecodeX(NextInstr)
        y == DecodeY(NextInstr)
        n == DecodeN(NextInstr)
    IN /\ C15_Add
       /\ (Called /\ panicked = "" /\ Is8xyn(NextInstr, {4, 5, 7})) =>
            /\ panicked' = ""
            /\ pc' = pc + 2
            /\ \A k \in 0..(NUM_REGS - 1) : (k # x /\ k # 15) => v'[k] = v[k]
            /\ v'[15] = ArithFlag(n, v[x], v[y])
            /\ x # 15 => v'[x] = ArithValue(n, v[x], v[y])

\* C15 amended: 7xnn sets Vx to (Vx + nn) mod 256 and no flag; 8xy4, 8xy5 and
\* 8xy7 set VF to the carry (1 exactly when Vx + Vy > 255) or to the inverse of
\* the borrow (0 exactly when Vx < Vy, for 8xy7 when Vy < Vx) and, with x other
\* than F, Vx to (Vx + Vy), (Vx - Vy), (Vy - Vx) mod 256; with x = F the flag
\* replaces the result.  The operands are the values before the instruction and
\* no other register changes.
C15_ArithFlagWrittenLast == [][C15_Step]_vars

\* 255 + 1 gave 0 with carry; 1 - 2 gave 255 with borrow; 8F14 on 255 + 255
\* left the carry in VF, not 254
C15_Witness ==
    /\ panicked = ""
    /\ \/ fetched = 32788 /\ v[0] = 0 /\ v[1] = 1 /\ v[15] = 1
       \/ fetched = 32789 /\ v[0] = 255 /\ v[1] = 2 /\ v[15] = 0
       \/ fetched = 36628 /\ v[1] = 255 /\ v[15] = 1

\* ---- C16

IsFx55(instr) == instr >= 0 /\ DecodeOp(instr) = 15 /\ DecodeNN(instr) = 85

IsFx65(instr) == instr >= 0 /\ DecodeOp(instr) = 15 /\ DecodeNN(instr) = 101

\* the memory r2 is the memory r1 with the bytes given by the function bytes
\* written at their addresses, and no other byte changed
Written(r1, r2, bytes) ==
    \A a \in 0..(RAM_SIZE - 1) :
        RamGet(r2, a) = IF a \in DOMAIN bytes THEN bytes[a] ELSE RamGet(r1, a)

C16_Store ==
    LET x == DecodeX(NextInstr)
    IN (Called /\ panicked = "" /\ IsFx55(NextInstr)) =>
         /\ panicked' = ""
         /\ Written(ram, ram', [a \in i..(i + x) |-> v[a - i]])
         /\ v' = v
         /\ i' = IF cosmac_quirks THEN i + x + 1 ELSE i

C16_Load ==
    LET x == DecodeX(NextInstr)
    IN (Called /\ panicked = "" /\ IsFx65(NextInstr)) =>
         /\ panicked' = ""
         /\ v' = [k \in 0..(NUM_REGS - 1) |-> IF k <= x THEN RamGet(ram, i + k) ELSE v[k]]
         /\ ram' = ram
         /\ i' = IF cosmac_quirks THEN i + x + 1 ELSE i

\* C16: Fx55 writes Vk to memory[I + k] and Fx65 loads Vk from memory[I + k]
\* for every k in 0..x, with I as it is before the instruction, and changes no
\* other memory byte or register; afterwards I is I + x + 1 in quirk mode and
\* unchanged otherwise.
C16_StoreLoadExact == [][C16_Store /\ C16_Load]_vars

\* ---- C17

C17_Step ==
    /\ (Called /\ panicked = "" /\ Is2nnn(NextInstr) /\ Len(calls) < STACK_CAPACITY) =>
         /\ panicked' = ""
         /\ pc' = DecodeNNN(NextInstr)
    /\ (Called /\ panicked = "" /\ Is00EE(NextInstr) /\ calls # <<>>) =>
         /\ panicked' = ""
         /\ pc' = calls[Len(calls)] + 2

\* C17: with at most 64 calls not yet returned from, 2nnn sets pc to nnn and
\* 00EE sets pc to a + 2 for a the address of the most recent 2nnn not yet
\* returned from, so that the return addresses come back last in, first out.
C17_ReturnsToLatestCall == [][C17_Step]_vars

\* a return from the third of three nested calls, to the second routine; and a
\* return from the 64th nested call
C17_Witness ==
    /\ Is00EE(fetched)
    /\ panicked = ""
    /\ \/ calls = <<512, 518>> /\ pc = 524
       \/ Len(calls) = STACK_CAPACITY - 1 /\ pc = 524

\* ---- C19

\* the catch-up calls update
StepCalled == host_pc = "cycle" /\ cycle_idx' = cycle_idx + 1

C19_Step == StepCalled => blank_interrupt' = render_pending

\* C19: the flag passed to a call of update is true exactly when a frame was
\* rendered since the call before it (for the first call, since the start), and
\* at most one Dxyn executes between two renders, however many calls are made.
C19_FlagOnFirstStepAfterRender == [](draws <= 1) /\ [][C19_Step]_vars

\* after a render a Dxyn executed, and a later call found the next Dxyn blocked
C19_Witness ==
    /\ draws = 1
    /\ ~render_pending
    /\ IsDxyn(fetched)
    /\ ~blank_interrupt
    /\ retry.latest

\* ---- C20

\* the catch-up is about to call update
StepCallDue == host_pc = "cycle" /\ (cycle_idx < num_cycles \/ num_cycles = 0)

\* the latest call of update fetched a Dxyn and left pc on it
C20_Blocked == panicked = "" /\ IsDxyn(fetched) /\ retry.latest

\* the latest call of update fetched a Dxyn with the flag true and left pc
\* behind it
C20_Drawn == panicked = "" /\ IsDxyn(fetched) /\ blank_interrupt /\ ~retry.latest

C20_Step ==
    (StepCallDue /\ C20_Blocked /\ just_rendered) =>
        /\ blank_interrupt'
        /\ pc' = pc + 2
        /\ panicked' = ""

\* C20: while the host runs on (it renders a frame whenever more than a frame
\* time has passed and calls update, with no cycle bound), a machine blocked
\* on a Dxyn gets to execute it: the first call of update after the next
\* render executes the Dxyn and leaves pc behind it.
C20_BlockedDrawExecutes ==
    /\ C20_Blocked ~> C20_Drawn
    /\ [][C20_Step]_vars

\* a Dxyn that was blocked executed on the call after a render, and the
\* catch-up loop goes on
C20_Witness ==
    /\ C20_Drawn
    /\ retry.before
    /\ host_pc = "while"
    /\ ~just_rendered
    /\ lag_us >= CHIP8_UPDATE_TIME_US

\* ---- C18

IsFx33(instr) == instr >= 0 /\ DecodeOp(instr) = 15 /\ DecodeNN(instr) = 51

C18_Step ==
    LET x == DecodeX(NextInstr)
        d0 == RamGet(ram', i)
        d1 == RamGet(ram', i + 1)
        d2 == RamGet(ram', i + 2)
    IN (Called /\ panicked = "" /\ IsFx33(NextInstr)) =>
         /\ panicked' = ""
         /\ {d0, d1, d2} \subseteq 0..9
         /\ 100 * d0 + 10 * d1 + d2 = v[x]
         /\ Written(ram, ram', [a \in i..(i + 2) |-> <<d0, d1, d2>>[a - i + 1]])
         /\ v' = v
         /\ i' = i

\* C18: Fx33 writes to memory[I], memory[I + 1], memory[I + 2] the hundreds,
\* tens and ones digits of Vx: each byte written is in 0..9 and
\* 100 * memory[I] + 10 * memory[I + 1] + memory[I + 2] = Vx; Vx and I are
\* unchanged.
C18_DigitsOfVx == [][C18_Step]_vars

\* ---- C21

Is00E0(instr) == instr = 224

C21_Step ==
    IF Called /\ panicked = ""
    THEN IF Is00E0(NextInstr) THEN panicked' = "" /\ display' = {}
         ELSE IF IsDxyn(NextInstr) /\ blank_interrupt' THEN TRUE
         ELSE display' = display
    ELSE display' = display

\* C21: the display changes only in a call of update that fetches 00E0, which
\* leaves no pixel lit, or that fetches Dxyn with the render flag true: a call
\* that fetches any other instruction or no instruction, a Dxyn or Fx0A that
\* blocks, the timer decrement of any call, and everything the host does
\* outside update leave every pixel as it is.
C21_DisplayChangesByClearOrDraw == [][C21_Step]_vars

\* the 00E0 of the program that draws and clears has executed: the glyph the
\* Dxyn before it had lit is cleared
C21_Witness ==
    /\ Is00E0(fetched)
    /\ RamGet(ram, ROM_BASE + 2) = 208
    /\ pc = ROM_BASE + 6
    /\ panicked = ""
    /\ display = {}

\* ---- C22

IsFx07(instr) == instr >= 0 /\ DecodeOp(instr) = 15 /\ DecodeNN(instr) = 7

\* the timer intervals that are complete once a call has added its elapsed time
DueIntervals == (elapsed_us + AsMicros(delta')) \div TIMER_DECREMENT_INTERVAL_US

C22_Step ==
    LET x == DecodeX(NextInstr)
        delay == Max0(delay_timer - DueIntervals)
        sound == Max0(sound_timer - DueIntervals)
    IN Called =>
         /\ elapsed_us' = (elapsed_us + AsMicros(delta')) % TIMER_DECREMENT_INTERVAL_US
         /\ delay_timer' = IF IsFx15(NextInstr) THEN v[x] ELSE delay
         /\ sound_timer' = IF IsFx18(NextInstr) THEN v[x] ELSE sound
         /\ IsFx07(NextInstr) => v'[x] = delay
         /\ (IsFx07(NextInstr) \/ IsFx15(NextInstr) \/ IsFx18(NextInstr)) => panicked' = ""

\* C22: every call of update, one that blocks on Dxyn or Fx0A or that panics
\* included, takes one off each timer that is not zero for every timer interval
\* its elapsed time completes, before it fetches: Fx07 reads the delay timer
\* after that decrement, and a timer written by Fx15 or Fx18 holds the value
\* written when the call returns.
C22_TimersDecrementBeforeFetch == [][C22_Step]_vars

\* the latest call blocked, as the call before it, its elapsed time completed
\* a timer interval, and the delay timer set to 3 is lower and not yet zero
C22_Witness ==
    /\ retry.latest
    /\ retry.before
    /\ delta >= TIMER_DECREMENT_INTERVAL_US * 1000
    /\ timer_set.delay.value = 3
    /\ delay_timer \in {1, 2}
    /\ sound_timer = delay_timer

====
